---- MODULE Spec2Model ----
(***************************************************************************)
(* Model of odin.py, the Valheim dedicated-server orchestrator.            *)
(*                                                                         *)
(* Spec: one action is one run of main(): the bootstrap done by prerun(),   *)
(* then the command.  The state is the install root on disk, the number of *)
(* detached server processes, and a record of the last run.                *)
(* SpecConc: two runs of main() on a bootstrapped root, interleaved one    *)
(* filesystem call or process call at a time.                              *)
(*                                                                         *)
(* Strings that the program inspects (instance names, arguments, the port) *)
(* are sequences of one-character strings.  The program targets Windows    *)
(* ("cmd /C", "steamcmd.exe"): spawning "cmd /C ..." succeeds whether or   *)
(* not the server executable exists.                                       *)
(***************************************************************************)
EXTENDS Integers, Sequences, FiniteSets, TLC

(* ------------------------------ bounds --------------------------------- *)

\* Cap on the number of detached server processes that are tracked.
MaxRunning == 1

(* ------------------------------ inputs --------------------------------- *)

\* Instance names tried: an ordinary name, a name that is a working regular
\* expression, a name that is an invalid regular expression, and the names
\* that os.path.abspath folds into the servers directory or the install root.
Names ==
    { <<"f", "o", "o">>, <<".", "+">>, <<"+">>, <<".">>, <<>>, <<".", ".">> }

DashP == <<"-", "p">>

DashDashPort == <<"-", "-", "p", "o", "r", "t">>

SuppliedPort == <<"4", "4", "5", "5">>

\* Arguments that follow the instance name of a start command.
Extras == { <<>>, <<DashP, SuppliedPort>>, <<DashDashPort, SuppliedPort>> }

\* Exit statuses of the installer (steamcmd).
ExitCodes == {0, 1}

\* Outcomes of the one-time download in setup(): success, urlopen raising,
\* the read raising after the archive file was opened, extraction raising.
DlOutcomes == {"ok", "neterr", "readerr", "badzip"}

(* ---------------------------- program text ----------------------------- *)

\* valid_cmds of prerun().
ValidCmds == {"create", "start", "backup", "update", "help"}

\* The literal r'(?:-p|--port)\s(\d+)' of start().
PortPattern ==
    << "(", "?", ":", "-", "p", "|", "-", "-", "p", "o", "r", "t", ")",
       "\\", "s", "(", "\\", "d", "+", ")" >>

\* Another port number as the default.
DefaultPortOther == <<"2", "4", "5", "7">>

DefaultPort == <<"2", "4", "5", "6">>

Password == <<"1", "2", "3", "4", "5", "6">>

Digits == {"0", "1", "2", "3", "4", "5", "6", "7", "8", "9"}

(* ------------------------------ paths ---------------------------------- *)

ServersLoc == <<".">>

RootLoc == <<".", ".">>

\* odin_path('servers', name): os.path.join then os.path.abspath.  The result
\* is given relative to servers/: an empty name and "." are servers/ itself,
\* ".." is the install root, any other name tried is a child of servers/.
ServerDirOf(name) ==
    IF name = <<>> \/ name = <<".">> THEN ServersLoc
    ELSE IF name = <<".", ".">> THEN RootLoc
    ELSE name

Locs == { ServerDirOf(n) : n \in Names }

Children == Locs \ {ServersLoc, RootLoc}

\* A directory is absent, exists without valheim_server.exe in it ("bare"),
\* or holds the installed server files.
DirStates == {"absent", "bare", "installed"}

\* os.path.exists of a directory below the install root.
Exists(f, loc) == f.dirs[loc] # "absent"

\* os.mkdir(server_dir), reached only when the directory is absent.
Mkdir(f, loc) == [f EXCEPT !.dirs[loc] = "bare"]

\* shutil.rmtree(server_dir): the directory and everything below it.
RmTree(f, loc) ==
    IF loc = RootLoc
    THEN [worlds |-> FALSE, steamcmd |-> "absent", zip |-> FALSE,
          dirs |-> [l \in Locs |-> IF l = RootLoc THEN "bare" ELSE "absent"]]
    ELSE IF loc = ServersLoc
    THEN [f EXCEPT !.dirs = [l \in Locs |->
                               IF l = RootLoc THEN f.dirs[l] ELSE "absent"]]
    ELSE [f EXCEPT !.dirs[loc] = "absent"]

\* The install root before the first run.
FreshRoot ==
    [worlds |-> FALSE, steamcmd |-> "absent", zip |-> FALSE,
     dirs |-> [l \in Locs |-> IF l = RootLoc THEN "bare" ELSE "absent"]]

(* --------------------------- re.match ---------------------------------- *)

\* Parsing of a pattern made of literal characters, "." and "+": a sequence
\* of items [ch, q], q being "one", "plus" (greedy) or "poss" (possessive,
\* "++").  A "+" with nothing before it and a third "+" are re.error.
RECURSIVE ParseFrom(_, _)
ParseFrom(pat, i) ==
    IF i > Len(pat) THEN [ok |-> TRUE, items |-> <<>>]
    ELSE IF pat[i] = "+" THEN [ok |-> FALSE, items |-> <<>>]
    ELSE LET plus1 == i + 1 <= Len(pat) /\ pat[i + 1] = "+"
             plus2 == plus1 /\ i + 2 <= Len(pat) /\ pat[i + 2] = "+"
             q     == IF plus2 THEN "poss" ELSE IF plus1 THEN "plus" ELSE "one"
             next  == IF plus2 THEN i + 3 ELSE IF plus1 THEN i + 2 ELSE i + 1
             rest  == ParseFrom(pat, next)
         IN  [ok |-> rest.ok,
              items |-> <<[ch |-> pat[i], q |-> q]>> \o rest.items]

\* One pattern character against one subject character.
CharMatches(pc, c) == IF pc = "." THEN c # "\n" ELSE pc = c

\* How many subject characters after position j match pc in a row.
RECURSIVE MaxRun(_, _, _)
MaxRun(pc, subj, j) ==
    IF j + 1 <= Len(subj) /\ CharMatches(pc, subj[j + 1])
    THEN 1 + MaxRun(pc, subj, j + 1)
    ELSE 0

\* Backtracking match of items i.. with j subject characters consumed: the
\* number of characters consumed by the first match found, or -1.
RECURSIVE MatchItems(_, _, _, _)
RECURSIVE TryRuns(_, _, _, _, _)
MatchItems(items, i, subj, j) ==
    IF i > Len(items) THEN j
    ELSE LET run == MaxRun(items[i].ch, subj, j)
         IN  IF run < 1 THEN -1
             ELSE IF items[i].q = "one" THEN MatchItems(items, i + 1, subj, j + 1)
             ELSE IF items[i].q = "poss" THEN MatchItems(items, i + 1, subj, j + run)
             ELSE TryRuns(items, i, subj, j, run)

TryRuns(items, i, subj, j, k) ==
    IF k < 1 THEN -1
    ELSE LET r == MatchItems(items, i + 1, subj, j + k)
         IN  IF r # -1 THEN r ELSE TryRuns(items, i, subj, j, k - 1)

\* re.match(pattern, string): the match is anchored at the start of string;
\* group0 is the matched text (port[0] in start()).
ReMatch(pattern, string) ==
    LET p == ParseFrom(pattern, 1)
        e == IF p.ok THEN MatchItems(p.items, 1, string, 0) ELSE -1
    IN  [error   |-> ~p.ok,
         matched |-> p.ok /\ e # -1,
         group0  |-> IF p.ok /\ e # -1 THEN SubSeq(string, 1, e) ELSE <<>>]

\* ' '.join(args)
RECURSIVE Join(_)
Join(args) ==
    IF Len(args) = 0 THEN <<>>
    ELSE IF Len(args) = 1 THEN args[1]
    ELSE args[1] \o <<" ">> \o Join(Tail(args))

(* ---------------------------- bootstrap -------------------------------- *)

\* setup(): worlds/, then steamcmd/ (fatal if it exists), download, extract,
\* delete the archive.  fetched: urlopen was called.
Setup(f, dl) ==
    LET f1 == [f EXCEPT !.worlds = TRUE]
        f2 == [f1 EXCEPT !.steamcmd = "partial"]
    IN  IF f1.steamcmd # "absent"
        THEN [fs |-> f1, ok |-> FALSE, fetched |-> FALSE]
        ELSE IF dl = "neterr"
        THEN [fs |-> f2, ok |-> FALSE, fetched |-> TRUE]
        ELSE IF dl = "readerr" \/ dl = "badzip"
        THEN [fs |-> [f2 EXCEPT !.zip = TRUE], ok |-> FALSE, fetched |-> TRUE]
        ELSE [fs |-> [f2 EXCEPT !.steamcmd = "ready", !.zip = FALSE],
              ok |-> TRUE, fetched |-> TRUE]

\* The test of prerun() that decides whether setup() runs: steamcmd/ absent.
NeedsSetupAlways(f) == TRUE

NeedsSetup(f) == f.steamcmd = "absent"

\* The bootstrap part of prerun(): setup() if needed, then worlds/ and
\* servers/ are created when missing.
Bootstrap(f, dl) ==
    LET s == IF NeedsSetup(f) THEN Setup(f, dl)
             ELSE [fs |-> f, ok |-> TRUE, fetched |-> FALSE]
    IN  IF ~s.ok THEN s
        ELSE [s EXCEPT !.fs = [s.fs EXCEPT
                 !.worlds = TRUE,
                 !.dirs[ServersLoc] =
                     IF s.fs.dirs[ServersLoc] = "absent" THEN "bare"
                     ELSE s.fs.dirs[ServersLoc]]]

\* The argument checks of prerun(): "exit0" (no arguments, help), "invalid"
\* (returns False, main exits 1) or "valid".
ArgCheck(cmd, argLen) ==
    IF argLen = 0 THEN "exit0"
    ELSE IF cmd = "help" THEN "exit0"
    ELSE IF cmd \notin ValidCmds THEN "invalid"
    ELSE IF argLen < 2 THEN "invalid"
    ELSE "valid"

(* --------------------------- provisioning ------------------------------ *)

\* subprocess.call would return the exit status instead of raising.
Call(present, code) ==
    [started |-> present, raised |-> ~present, ret |-> code]

\* subprocess.check_call(cmd): FileNotFoundError when steamcmd.exe is not
\* there, CalledProcessError when the exit status is not 0, else returns 0.
CheckCall(present, code) ==
    [started |-> present, raised |-> ~present \/ code # 0, ret |-> 0]

\* What the installer leaves in its target directory: the server files when
\* it exits 0; otherwise the directory as it was or, if damage, without the
\* server executable.  The installer never removes the target directory.
InstallerLeaves(d, code, damage) ==
    IF code = 0 THEN "installed"
    ELSE IF damage THEN "bare"
    ELSE d

\* The precondition test of update is omitted.
UpdateMissingNever(f, loc) == FALSE

\* The precondition test of create(name, update=True): the directory is
\* not there.
UpdateMissing(f, loc) == ~Exists(f, loc)

\* The precondition test of create is omitted.
CreateConflictNever(f, loc) == FALSE

\* The precondition test of create(name): the directory is already there.
CreateConflict(f, loc) == Exists(f, loc)

\* create(name, update): the result of the run and the disk afterwards.
\* installer: "none" (not invoked), "missing" (steamcmd.exe not found),
\* "ok" or "fail" (ran, exit status 0 or not).
CreateBody(f, name, update, code, damage, rmOk) ==
    LET loc  == ServerDirOf(name)
        f1   == IF update THEN f ELSE Mkdir(f, loc)
        cc   == CheckCall(f1.steamcmd = "ready", code)
        f2   == IF cc.started
                THEN [f1 EXCEPT !.dirs[loc] = InstallerLeaves(f1.dirs[loc], code, damage)]
                ELSE f1
        inst == IF ~cc.started THEN "missing"
                ELSE IF code = 0 THEN "ok" ELSE "fail"
    IN  IF update /\ UpdateMissing(f, loc)
        THEN [fs |-> f, exit |-> 1, error |-> "missing", installer |-> "none",
              reported |-> FALSE]
        ELSE IF ~update /\ CreateConflict(f, loc)
        THEN [fs |-> f, exit |-> 1, error |-> "conflict", installer |-> "none",
              reported |-> FALSE]
        ELSE IF cc.raised
        THEN [fs |-> f2, exit |-> 1, error |-> "exception", installer |-> inst,
              reported |-> FALSE]
        ELSE IF cc.ret # 0
        THEN IF rmOk
             THEN [fs |-> RmTree(f2, loc), exit |-> 0, error |-> "none",
                   installer |-> inst, reported |-> TRUE]
             ELSE [fs |-> f2, exit |-> 1, error |-> "rollback",
                   installer |-> inst, reported |-> FALSE]
        ELSE [fs |-> f2, exit |-> 0, error |-> "none", installer |-> inst,
              reported |-> TRUE]

(* ------------------------------ launch --------------------------------- *)

NoParams ==
    [name |-> <<>>, world |-> <<>>, port |-> <<>>, password |-> <<>>,
     bin |-> <<>>, savedir |-> <<>>]

\* The existence test of start() is omitted.
StartDirOkAlways(f, loc) == TRUE

\* The existence test of start() also asks for the server executable.
StartDirOkExe(f, loc) == f.dirs[loc] = "installed"

\* The existence test of start(): os.path.exists(server_dir).
StartDirOk(f, loc) == Exists(f, loc)

\* The world is named after the resolved directory instead.
WorldNameFromDir(name) == ServerDirOf(name)

\* The value of -world in spawn_cmd: start_args["name"] again.
WorldName(name) == name

\* start(args) with args = <<name>> \o extra: the Launch Parameters and
\* whether subprocess.Popen was reached.  bin is the directory that
\* server_bin names valheim_server.exe in.
StartBody(f, name, extra) ==
    LET loc  == ServerDirOf(name)
        m    == ReMatch(Join(<<name>> \o extra), PortPattern)
        port == IF m.matched THEN m.group0 ELSE DefaultPort
    IN  IF ~StartDirOk(f, loc)
        THEN [exit |-> 1, error |-> "missing", spawned |-> FALSE,
              params |-> NoParams]
        ELSE IF m.error
        THEN [exit |-> 1, error |-> "exception", spawned |-> FALSE,
              params |-> NoParams]
        ELSE [exit |-> 0, error |-> "none", spawned |-> TRUE,
              params |-> [name |-> name, world |-> WorldName(name), port |-> port,
                          password |-> Password, bin |-> loc,
                          savedir |-> loc]]

(* ------------------------------ state ---------------------------------- *)

VARIABLES
    fs,        \* the install root on disk
    running,   \* detached server processes that are alive
    last,      \* the last run of main()
    procs      \* runs of main() in progress, one filesystem call at a time

vars == <<fs, running, last, procs>>

\* The concurrent runs that are followed step by step.
Procs == {"p1", "p2"}

\* A run that has not been launched.
IdleProc ==
    [pc |-> "idle", cmd |-> "none", name |-> <<>>, exit |-> 0,
     error |-> "none", invoked |-> FALSE, server |-> "none"]

\* The record of a run.  pre: the disk when the run started; boot: the disk
\* when prerun()'s bootstrap ended; began: create() or start() was entered.
Run(cmd, name, extra, pre, b) ==
    [cmd |-> cmd, name |-> name, extra |-> extra, pre |-> pre,
     boot |-> b.fs, bootOk |-> b.ok, fetched |-> b.fetched,
     began |-> FALSE, exit |-> 1, error |-> "bootstrap",
     installer |-> "none", code |-> 0, reported |-> FALSE,
     spawned |-> FALSE, params |-> NoParams]

Init ==
    /\ fs = FreshRoot
    /\ running = 0
    /\ last = [Run("none", <<>>, <<>>, FreshRoot,
                   [fs |-> FreshRoot, ok |-> TRUE, fetched |-> FALSE])
               EXCEPT !.exit = 0, !.error = "none"]
    /\ procs = [p \in Procs |-> IdleProc]

\* The download outcomes that can differ in the disk state f: urlopen is
\* reached only when steamcmd/ is absent.
DlChoices(f) == IF f.steamcmd = "absent" THEN DlOutcomes ELSE {"ok"}

\* The choices that can matter after an installer exit status: what a
\* failed installer leaves, and whether rmtree succeeds.
FailChoices(code) == IF code = 0 THEN {FALSE} ELSE BOOLEAN

\* The backup branch runs create().
DispatchBackupCreates(cmd) ==
    IF cmd = "create" \/ cmd = "backup" THEN [engine |-> "provision", update |-> FALSE]
    ELSE IF cmd = "update" THEN [engine |-> "provision", update |-> TRUE]
    ELSE IF cmd = "start" THEN [engine |-> "launch", update |-> FALSE]
    ELSE [engine |-> "none", update |-> FALSE]

\* The if/elif chain of main(): what is called for a command.
Dispatch(cmd) ==
    IF cmd = "create" THEN [engine |-> "provision", update |-> FALSE]
    ELSE IF cmd = "update" THEN [engine |-> "provision", update |-> TRUE]
    ELSE IF cmd = "start" THEN [engine |-> "launch", update |-> FALSE]
    ELSE IF cmd = "backup" THEN [engine |-> "notice", update |-> FALSE]
    ELSE [engine |-> "none", update |-> FALSE]

\* One run of main() with sys.argv[1:] = <<cmd, name>> \o extra cut to argLen
\* arguments.  The run is recorded as "help" when prerun() exits 0 and as
\* "malformed" when prerun() returns False.
Main(cmd, argLen, name, extra, dl, code, damage, rmOk) ==
    LET b    == Bootstrap(fs, dl)
        a    == ArgCheck(cmd, argLen)
        d    == Dispatch(cmd)
        lbl  == IF a = "exit0" THEN "help"
                ELSE IF a = "invalid" THEN "malformed" ELSE cmd
        base == Run(lbl, name, extra, fs, b)
        c    == CreateBody(b.fs, name, d.update, code, damage, rmOk)
        s    == StartBody(b.fs, name, extra)
    IN  /\ procs' = procs
        /\ IF ~b.ok
           THEN /\ fs' = b.fs
                /\ running' = running
                /\ last' = base
           ELSE IF a # "valid"
           THEN /\ fs' = b.fs
                /\ running' = running
                /\ last' = [base EXCEPT
                              !.exit = IF a = "exit0" THEN 0 ELSE 1,
                              !.error = IF a = "exit0" THEN "none" ELSE "usage"]
           ELSE IF d.engine = "provision"
           THEN /\ fs' = c.fs
                /\ running' = running
                /\ last' = [base EXCEPT
                              !.began = TRUE, !.exit = c.exit,
                              !.error = c.error, !.installer = c.installer,
                              !.code = IF c.installer = "fail" THEN code ELSE 0,
                              !.reported = c.reported]
           ELSE IF d.engine = "launch"
           THEN /\ fs' = b.fs
                /\ s.spawned => running < MaxRunning
                /\ running' = IF s.spawned THEN running + 1 ELSE running
                /\ last' = [base EXCEPT
                              !.began = TRUE, !.exit = s.exit,
                              !.error = s.error, !.spawned = s.spawned,
                              !.params = s.params]
           ELSE /\ fs' = b.fs
                /\ running' = running
                /\ last' = [base EXCEPT !.exit = 0, !.error = "none"]

\* "create <name>"
Create == \E n \in Names, dl \in DlChoices(fs), code \in ExitCodes :
    \E damage, rmOk \in FailChoices(code) :
        Main("create", 2, n, <<>>, dl, code, damage, rmOk)

\* "update <name>"
Update == \E n \in Names, dl \in DlChoices(fs), code \in ExitCodes :
    \E damage, rmOk \in FailChoices(code) :
        Main("update", 2, n, <<>>, dl, code, damage, rmOk)

\* "start <name> [extra]"
Start == \E n \in Names, extra \in Extras, dl \in DlChoices(fs) :
    Main("start", 2 + Len(extra), n, extra, dl, 0, FALSE, FALSE)

\* "backup <name>": prerun(), then the notice.
Backup == \E n \in Names, dl \in DlChoices(fs) :
    Main("backup", 2, n, <<>>, dl, 0, FALSE, FALSE)

\* No arguments, or "help": prerun() prints the usage and exits 0.
Help == \E a \in {[cmd |-> "", n |-> 0], [cmd |-> "help", n |-> 1]}, dl \in DlChoices(fs) :
    Main(a.cmd, a.n, <<>>, <<>>, dl, 0, FALSE, FALSE)

\* An unknown command, or a command without an instance name: prerun()
\* returns False and main() exits 1.
Malformed == \E a \in {[cmd |-> "bogus", n |-> 2], [cmd |-> "create", n |-> 1]}, dl \in DlChoices(fs) :
    Main(a.cmd, a.n, <<>>, <<>>, dl, 0, FALSE, FALSE)

Next == Create \/ Update \/ Start \/ Backup \/ Help \/ Malformed

Spec == Init /\ [][Next]_vars

(* ------------------- runs of main() step by step ----------------------- *)

\* Two runs of main() on an install root that is already bootstrapped, each
\* advancing by one filesystem call or one process call at a time.  On such
\* a root prerun() only reads, so it is part of the first step.  pc is the
\* call the run is about to make; server is the state of the process that
\* the run spawned.

\* The install root after a successful bootstrap, with no instance yet.
BootstrappedRoot ==
    [worlds |-> TRUE, steamcmd |-> "ready", zip |-> FALSE,
     dirs |-> [l \in Locs |-> IF l \in Children THEN "absent" ELSE "bare"]]

\* Instance names of the concurrent runs.
ConcNames == { <<"f", "o", "o">>, <<".", "+">> }

\* os.makedirs(exist_ok=True) would not raise.
MkdirNeverRaises(f, loc) == FALSE

\* os.mkdir(server_dir) raises FileExistsError when the directory exists.
MkdirRaises(f, loc) == Exists(f, loc)

\* The run waits for the spawned server, as p.wait() would.
StartWaits(server) == server # "alive"

\* What start() and main() do after Popen: nothing, so main() returns
\* whatever the state of the spawned server is.
StartReturns(server) == TRUE

InitConc ==
    /\ fs = BootstrappedRoot
    /\ running = 0
    /\ last = [Run("none", <<>>, <<>>, FreshRoot,
                   [fs |-> FreshRoot, ok |-> TRUE, fetched |-> FALSE])
               EXCEPT !.exit = 0, !.error = "none"]
    /\ procs = [p \in Procs |-> IdleProc]

\* The run p ends with an exit status and an error.
Ended(p, exit, error) ==
    [procs EXCEPT ![p].pc = "done", ![p].exit = exit, ![p].error = error]

\* A run is launched: prerun() passes and main() calls create() or start().
Launch(p) == \E c \in {"create", "update", "start"}, n \in ConcNames :
    /\ procs[p].pc = "idle"
    /\ ArgCheck(c, 2) = "valid"
    /\ procs' = [procs EXCEPT
                   ![p].cmd = c, ![p].name = n,
                   ![p].pc = IF Dispatch(c).engine = "launch" THEN "s_check"
                             ELSE IF Dispatch(c).update THEN "u_check"
                             ELSE "c_check"]
    /\ UNCHANGED <<fs, running, last>>

\* create(): the os.path.exists tests of lines 146 and 151.
CheckStep(p) ==
    LET loc == ServerDirOf(procs[p].name)
    IN  /\ procs[p].pc \in {"c_check", "u_check"}
        /\ procs' =
             IF procs[p].pc = "u_check"
             THEN IF UpdateMissing(fs, loc) THEN Ended(p, 1, "missing")
                  ELSE [procs EXCEPT ![p].pc = "c_install"]
             ELSE IF CreateConflict(fs, loc) THEN Ended(p, 1, "conflict")
                  ELSE [procs EXCEPT ![p].pc = "c_mkdir"]
        /\ UNCHANGED <<fs, running, last>>

\* create(): os.mkdir(server_dir).
MkdirStep(p) ==
    LET loc == ServerDirOf(procs[p].name)
    IN  /\ procs[p].pc = "c_mkdir"
        /\ IF MkdirRaises(fs, loc)
           THEN /\ procs' = Ended(p, 1, "mkdir")
                /\ fs' = fs
           ELSE /\ procs' = [procs EXCEPT ![p].pc = "c_install"]
                /\ fs' = Mkdir(fs, loc)
        /\ UNCHANGED <<running, last>>

\* create(): check_call starts the installer.
InstallerStarts(p) ==
    /\ procs[p].pc = "c_install"
    /\ procs' = [procs EXCEPT ![p].pc = "c_wait", ![p].invoked = TRUE]
    /\ UNCHANGED <<fs, running, last>>

\* create(): the installer terminates, check_call returns or raises, and the
\* rest of create() runs.
InstallerExits(p) == \E code \in ExitCodes : \E damage, rmOk \in FailChoices(code) :
    LET loc == ServerDirOf(procs[p].name)
        cc  == CheckCall(TRUE, code)
        f2  == [fs EXCEPT !.dirs[loc] = InstallerLeaves(fs.dirs[loc], code, damage)]
    IN  /\ procs[p].pc = "c_wait"
        /\ IF cc.raised
           THEN /\ fs' = f2
                /\ procs' = Ended(p, 1, "exception")
           ELSE IF cc.ret # 0
           THEN IF rmOk
                THEN /\ fs' = RmTree(f2, loc)
                     /\ procs' = Ended(p, 0, "none")
                ELSE /\ fs' = f2
                     /\ procs' = Ended(p, 1, "rollback")
           ELSE /\ fs' = f2
                /\ procs' = Ended(p, 0, "none")
        /\ UNCHANGED <<running, last>>

\* start(): the os.path.exists test of line 194.
StartCheck(p) ==
    LET loc == ServerDirOf(procs[p].name)
    IN  /\ procs[p].pc = "s_check"
        /\ procs' = IF StartDirOk(fs, loc)
                    THEN [procs EXCEPT ![p].pc = "s_spawn"]
                    ELSE Ended(p, 1, "missing")
        /\ UNCHANGED <<fs, running, last>>

\* start(): re.match, then subprocess.Popen starts the detached server.
Spawn(p) ==
    LET r == StartBody(fs, procs[p].name, <<>>)
    IN  /\ procs[p].pc = "s_spawn"
        /\ IF r.spawned
           THEN /\ running < MaxRunning
                /\ running' = running + 1
                /\ procs' = [procs EXCEPT ![p].pc = "s_return",
                                          ![p].server = "alive"]
           ELSE /\ running' = running
                /\ procs' = Ended(p, r.exit, r.error)
        /\ UNCHANGED <<fs, last>>

\* start() and main() return after Popen.
Return(p) ==
    /\ procs[p].pc = "s_return"
    /\ StartReturns(procs[p].server)
    /\ procs' = Ended(p, 0, "none")
    /\ UNCHANGED <<fs, running, last>>

\* The server process is stopped from outside (CTRL+C).
ServerExits(p) ==
    /\ procs[p].server = "alive"
    /\ procs' = [procs EXCEPT ![p].server = "exited"]
    /\ running' = running - 1
    /\ UNCHANGED <<fs, last>>

\* The steps that the interpreter of run p takes by itself.
OrchStep(p) ==
    CheckStep(p) \/ MkdirStep(p) \/ InstallerStarts(p) \/ StartCheck(p)
        \/ Spawn(p) \/ Return(p)

NextConc == \E p \in Procs :
    Launch(p) \/ OrchStep(p) \/ InstallerExits(p) \/ ServerExits(p)

\* A run that can take a step of its own eventually takes it; nothing is
\* assumed about the installer or the server terminating.
SpecConc ==
    InitConc /\ [][NextConc]_vars /\ \A p \in Procs : WF_vars(OrchStep(p))


TypeOK ==
    /\ fs.worlds \in BOOLEAN
    /\ fs.steamcmd \in {"absent", "partial", "ready"}
    /\ fs.zip \in BOOLEAN
    /\ fs.dirs \in [Locs -> DirStates]
    /\ running \in 0..MaxRunning
    /\ last.exit \in {0, 1}

\* The directory the last run's instance name resolves to.
LastLoc == ServerDirOf(last.name)

(* ------------------------------ claims --------------------------------- *)

\* A run of create/update that entered create() with the installer having
\* run and exited nonzero.
InstallerFailed(c) ==
    last.cmd = c /\ last.began /\ last.installer = "fail"

\* C1 (as claimed): when Create(name) begins with servers/<name> absent and
\* the installer exits nonzero, servers/<name> does not exist once the run
\* has terminated.
C1_CreateRollsBack ==
    (InstallerFailed("create") /\ last.boot.dirs[LastLoc] = "absent")
        => fs.dirs[LastLoc] = "absent"

C3_CreateConflict ==
    (last.cmd = "create" /\ last.began /\ last.boot.dirs[LastLoc] # "absent")
        => /\ last.error = "conflict"
           /\ last.exit = 1
           /\ last.installer = "none"
           /\ fs = last.boot

C3_Witness ==
    /\ last.cmd = "create" /\ last.began
    /\ LastLoc \in Children
    /\ last.boot.dirs[LastLoc] = "installed"
    /\ last.error = "conflict"
    /\ fs.dirs[LastLoc] = "installed"

\* C4: an Update(name) that begins with servers/<name> absent fails with the
\* missing-precondition error and exit status 1, does not invoke the
\* installer and creates no directory.
C4_UpdateMissing ==
    (last.cmd = "update" /\ last.began /\ last.boot.dirs[LastLoc] = "absent")
        => /\ last.error = "missing"
           /\ last.exit = 1
           /\ last.installer = "none"
           /\ fs = last.boot

C4_Witness ==
    /\ last.cmd = "update" /\ last.began
    /\ last.boot.dirs[LastLoc] = "absent"
    /\ last.error = "missing"
    /\ fs.dirs[LastLoc] = "absent"

\* C5: a Start on a name whose servers/<name> is absent spawns no process
\* and exits with a nonzero status; when start() is entered the failure is
\* the missing-precondition error.
C5_StartMissing ==
    (last.cmd = "start" /\ last.boot.dirs[LastLoc] = "absent")
        => /\ ~last.spawned
           /\ last.exit = 1
           /\ last.began => last.error = "missing"

C5_Witness ==
    /\ last.cmd = "start" /\ last.began
    /\ last.boot.dirs[LastLoc] = "absent"
    /\ last.error = "missing"
    /\ ~last.spawned

\* The joined arguments of the last start are rejected by re.match.
LastPatternInvalid ==
    ReMatch(Join(<<last.name>> \o last.extra), PortPattern).error

\* C6 (as claimed), for names that are a directory of their own in
\* servers/: Start spawns only when valheim_server.exe exists in
\* servers/<name>; when the directory exists without the executable, Start
\* fails and spawns nothing.
C6_StartNeedsExecutable ==
    /\ (last.cmd = "start" /\ last.spawned /\ LastLoc \in Children)
           => last.boot.dirs[LastLoc] = "installed"
    /\ (last.cmd = "start" /\ last.began /\ LastLoc \in Children
            /\ last.boot.dirs[LastLoc] = "bare")
           => (~last.spawned /\ last.exit = 1)

\* C6 (amended): Start spawns only when servers/<name> exists, and the
\* executable is not looked at: when the directory exists without the
\* executable, Start spawns the command line naming the executable in that
\* directory and exits 0, unless re.match raised on the joined arguments.
C6_StartNeedsDirectoryOnly ==
    /\ (last.cmd = "start" /\ last.spawned)
           => last.boot.dirs[LastLoc] # "absent"
    /\ (last.cmd = "start" /\ last.began /\ last.boot.dirs[LastLoc] = "bare"
            /\ ~LastPatternInvalid)
           => (last.spawned /\ last.exit = 0 /\ last.params.bin = LastLoc)

C6_Witness ==
    /\ last.cmd = "start" /\ last.began
    /\ LastLoc \in Children
    /\ last.boot.dirs[LastLoc] = "bare"
    /\ last.spawned
    /\ last.exit = 0

\* The arguments after the name are a port flag followed by digits.
HasPortFlag(extra) ==
    /\ Len(extra) = 2
    /\ extra[1] \in {DashP, DashDashPort}
    /\ Len(extra[2]) > 0
    /\ \A i \in 1..Len(extra[2]) : extra[2][i] \in Digits

\* C7 (as claimed), for names that are a directory of their own in
\* servers/: when the arguments after the name are "-p <digits>" or
\* "--port <digits>", the port of the spawned command line is that number.
C7_PortOverride ==
    (last.cmd = "start" /\ last.spawned /\ LastLoc \in Children
         /\ HasPortFlag(last.extra))
        => last.params.port = last.extra[2]

\* C8 (as claimed), for names that are a directory of their own in
\* servers/: a Start with no argument after the name spawns with
\* port 2456, whatever the instance name is.
C8_PortDefault ==
    (last.cmd = "start" /\ last.spawned /\ LastLoc \in Children
         /\ last.extra = <<>>)
        => last.params.port = DefaultPort

\* C9 (as claimed): create() and start() are entered only with steamcmd.exe
\* in place and worlds/ and servers/ present, and a run that finds steamcmd/
\* without steamcmd.exe ends in the bootstrap.
C9_BootstrapGuarantee ==
    /\ last.began
           => /\ last.boot.steamcmd = "ready"
              /\ last.boot.worlds
              /\ last.boot.dirs[ServersLoc] # "absent"
    /\ (last.cmd # "none" /\ last.pre.steamcmd = "partial")
           => (~last.bootOk /\ last.exit = 1)

\* The installer, worlds/ and servers/ were all present when the last run
\* started.
LastRootWasReady ==
    /\ last.cmd # "none"
    /\ last.pre.steamcmd = "ready"
    /\ last.pre.worlds
    /\ last.pre.dirs[ServersLoc] # "absent"

\* C10: a run that starts with the installer, worlds/ and servers/ present
\* gets through the bootstrap without error, without a download and with
\* the disk unchanged.
C10_BootstrapIdempotent ==
    LastRootWasReady
        => /\ last.bootOk
           /\ ~last.fetched
           /\ last.boot = last.pre

C10_Witness ==
    /\ LastRootWasReady
    /\ last.cmd = "help"
    /\ last.exit = 0
    /\ fs = last.pre

\* steamcmd/, worlds/ and servers/ all existed when the last run started.
LastRootHadDirectories ==
    /\ last.pre.steamcmd # "absent"
    /\ last.pre.worlds
    /\ last.pre.dirs[ServersLoc] # "absent"

\* C11 (as claimed): a malformed invocation leaves the disk identical to
\* the disk before it, from every starting state.
C11_MalformedLeavesDisk ==
    last.cmd = "malformed" => fs = last.pre

\* C11 (amended): a malformed invocation changes nothing but what the
\* bootstrap of prerun() creates; when steamcmd/, worlds/ and servers/
\* already exist it prints the usage, exits 1 and leaves the disk identical.
C11_MalformedOnlyBootstraps ==
    last.cmd = "malformed"
        => /\ fs = last.boot
           /\ ~last.began /\ last.installer = "none" /\ ~last.spawned
           /\ LastRootHadDirectories
                  => (fs = last.pre /\ last.error = "usage" /\ last.exit = 1)

C11_Witness ==
    /\ last.cmd = "malformed"
    /\ LastRootHadDirectories
    /\ last.error = "usage"
    /\ fs = last.pre
    /\ \E l \in Children : fs.dirs[l] = "installed"

Foo == <<"f", "o", "o">>

\* The last run was "create foo" on a fresh install root with an installer
\* that exited 0.
CreatedFooFromFresh ==
    /\ last.cmd = "create" /\ last.name = Foo
    /\ last.pre = FreshRoot
    /\ last.installer = "ok"

\* C12: after "create foo" on a fresh install root with a succeeding
\* installer servers/foo holds the server files, and a "start foo" that
\* follows spawns exactly one process, with name foo, world foo, port 2456
\* and password 123456.
C12_EndToEnd ==
    [][CreatedFooFromFresh
         => /\ fs.dirs[Foo] = "installed"
            /\ (last'.cmd = "start" /\ last'.name = Foo /\ last'.extra = <<>>)
                   => /\ last'.spawned
                      /\ running' = running + 1
                      /\ last'.params.name = Foo
                      /\ last'.params.world = Foo
                      /\ last'.params.port = <<"2", "4", "5", "6">>
                      /\ last'.params.password = <<"1", "2", "3", "4", "5", "6">>]_vars

C12_Witness ==
    /\ last.cmd = "start" /\ last.name = Foo /\ last.extra = <<>>
    /\ last.pre.dirs[Foo] = "installed"
    /\ last.spawned
    /\ running = 1
    /\ last.params.port = <<"2", "4", "5", "6">>

\* C13: a run that ends in a conflict, a missing precondition, an installer
\* that exited nonzero, a failed rollback or a failed bootstrap exits with a
\* nonzero status.
C13_FailuresExitNonzero ==
    (\/ last.error \in {"conflict", "missing", "rollback", "bootstrap"}
     \/ last.installer = "fail")
        => last.exit # 0

C13_Witness ==
    /\ InstallerFailed("create")
    /\ last.code # 0
    /\ last.exit = 1

\* C14: every spawn uses the instance name as the server name and as the
\* world name, the directory the name resolves to as the place of the
\* executable and as the save path, and the password 123456, whatever
\* follows the name.
C14_LaunchParameters ==
    last.spawned
        => /\ last.params.name = last.name
           /\ last.params.world = last.name
           /\ last.params.bin = ServerDirOf(last.name)
           /\ last.params.savedir = ServerDirOf(last.name)
           /\ last.params.password = <<"1", "2", "3", "4", "5", "6">>

C14_Witness ==
    /\ last.spawned
    /\ last.name = Foo
    /\ last.extra # <<>>
    /\ last.params.world = Foo
    /\ last.params.savedir = Foo

\* C15: the installer is invoked only by create and update runs, a process
\* is spawned only by start runs, and backup and help runs invoke no
\* installer, spawn nothing and leave every directory of servers/ as it was.
C15_DispatchRouting ==
    /\ last.installer # "none" => last.cmd \in {"create", "update"}
    /\ last.spawned => last.cmd = "start"
    /\ last.cmd \in {"backup", "help"}
           => /\ last.installer = "none"
              /\ ~last.spawned
              /\ \A l \in Children : fs.dirs[l] = last.pre.dirs[l]

C15_Witness ==
    /\ last.cmd = "backup"
    /\ last.bootOk
    /\ last.name = Foo
    /\ last.pre.dirs[Foo] = "absent"
    /\ fs.dirs[Foo] = "absent"
    /\ last.exit = 0

\* C16: "Server files downloaded" is reported only by a create or update run
\* whose installer ran and exited 0; an installer that exited nonzero never
\* leads to it.
C16_SuccessOnlyOnZero ==
    /\ last.reported
           => (last.installer = "ok" /\ last.cmd \in {"create", "update"})
    /\ last.installer = "fail" => ~last.reported

C16_Witness ==
    /\ last.cmd = "update"
    /\ last.reported
    /\ last.installer = "ok"
    /\ last.exit = 0

C17_FireAndForget ==
    /\ \A p \in Procs : (procs[p].pc = "s_return") ~> (procs[p].pc = "done")
    /\ [][\A p \in Procs :
            (procs[p].pc = "s_return" /\ procs'[p].pc = "done")
                => /\ procs'[p].server = procs[p].server
                   /\ procs'[p].exit = 0
                   /\ running' = running]_vars

C17_Witness ==
    \E p \in Procs :
        /\ procs[p].cmd = "start"
        /\ procs[p].pc = "done"
        /\ procs[p].server = "alive"
        /\ running = 1

\* Two different runs that are both a create of the same name.
SameCreate(p, q) ==
    /\ p # q
    /\ procs[p].cmd = "create" /\ procs[q].cmd = "create"
    /\ procs[p].name = procs[q].name

\* The run p ended with the conflict error or with the FileExistsError of
\* os.mkdir, without having invoked the installer.
LostTheRace(p) ==
    /\ procs[p].pc = "done"
    /\ procs[p].exit = 1
    /\ procs[p].error \in {"conflict", "mkdir"}
    /\ ~procs[p].invoked

\* C18: of two concurrent create runs for the same name at most one invokes
\* the installer, and once both have ended one of them ended with an error
\* without invoking it.
C18_AtMostOneInstaller ==
    \A p, q \in Procs :
        SameCreate(p, q)
            => /\ ~(procs[p].invoked /\ procs[q].invoked)
               /\ (procs[p].pc = "done" /\ procs[q].pc = "done")
                      => (LostTheRace(p) \/ LostTheRace(q))

C18_Witness ==
    \E p, q \in Procs :
        /\ SameCreate(p, q)
        /\ procs[p].invoked
        /\ procs[p].pc = "done"
        /\ LostTheRace(q)
        /\ procs[q].error = "mkdir"

====
